---- MODULE Spec2Model ----
(***************************************************************************)
(* A model of the nvdialog-rs binding layer: the library initialisation    *)
(* gate, the handle wrappers (DialogBox, QuestionDialog, FileDialog,       *)
(* InputBox, Notification, AboutDialog, Image), the host-string to         *)
(* C-string conversion and the error-code mapping.                         *)
(*                                                                         *)
(* The native library is modelled as an environment that hands out fresh   *)
(* handles or NULL and counts, per handle, how often it was released and   *)
(* whether it was used after a release.  The program under study makes its *)
(* calls from one thread at a time; it constructs one dialog wrapper (w),  *)
(* one Image (img) it may give it, DynamicString values (ds) and the i32   *)
(* slots it binds to notification actions.  A panic unwinds, which leaves  *)
(* only the Drop steps enabled.                                            *)
(***************************************************************************)
EXTENDS Integers, Sequences, FiniteSets, TLC

(***************************************************************************)
(* Bounds of the model.                                                    *)
(***************************************************************************)
MaxHandles == 3   \* native allocations handed out in one run
MaxFrees == 2     \* release calls counted per handle
MaxStrLen == 2    \* length of a path the native layer reports
MaxExtLen == 1    \* length of one file extension
MaxExts == 2      \* length of an extension list
MaxTextLen == 2   \* length of a text held by a DynamicString
MaxActions == 2   \* actions added to one notification
MaxSends == 2     \* send calls counted for one notification
MaxReply == 8     \* largest small reply code tried
CodeMargin == 8   \* integers tried below 0 and above the last error code

NULL == 0
NUL == 0
Semicolon == 59

Handles == 1..MaxHandles

(***************************************************************************)
(* Host strings are sequences of bytes.  The bounded string sets are built *)
(* over NUL, 'a' and the two bytes of U+00E9 (0xC3 0xA9).                  *)
(***************************************************************************)
StringsOver(A, n) == UNION {[1..k -> A] : k \in 0..n}

ExtStrings == StringsOver({NUL, 97}, MaxExtLen)
ExtLists == UNION {[1..k -> ExtStrings] : k \in 0..MaxExts}
PathStrings == StringsOver({97, 195, 169}, MaxStrLen)

HasNul(s) == \E i \in 1..Len(s) : s[i] = NUL

TextPlain == <<104, 105>>
TextNul == <<104, NUL, 105>>
Texts == {TextPlain, TextNul}

(***************************************************************************)
(* CString::new(s): refuses a string with an interior NUL byte, otherwise  *)
(* yields the bytes followed by the terminator.                            *)
(***************************************************************************)
CStringNewUnchecked(s) == [ok |-> TRUE, buf |-> Append(s, NUL)]

CStringNew(s) ==
    IF HasNul(s) THEN [ok |-> FALSE, buf |-> <<>>]
    ELSE [ok |-> TRUE, buf |-> Append(s, NUL)]

\* cstr!: CString::new(..).expect("CString::new error"); ok = FALSE is the panic.
cstr(s) == CStringNew(s)

\* c_string!: used by file_dialog.rs, notification.rs and lib.rs; its
\* definition is not among the sources.  Its callers return Self or (), so it
\* cannot hand an error back; it is taken to be cstr!.
c_string(s) == cstr(s)

\* What C code reads through a char pointer: the bytes before the first NUL.
RECURSIVE NativeRead(_)
NativeRead(buf) ==
    IF buf = <<>> \/ Head(buf) = NUL THEN <<>>
    ELSE <<Head(buf)>> \o NativeRead(Tail(buf))

(***************************************************************************)
(* Error and its conversion from the native integer code.                  *)
(***************************************************************************)
ErrorMembers ==
    << "NoError", "NoDisplay", "BackendFailed", "ParametersError",
       "NotYetInitialized", "InvalidBackend", "InaccessibleFile",
       "EmptyString", "OutOfMemory", "InternalError", "AlreadyInitialized" >>

NoDisplayCode == 255

\* Discriminants counted from zero, as if NoDisplay had no explicit value.
DiscriminantFromZero(i) == i - 1

\* `member as i32`: NoError = 0x0, NoDisplay = 0xff, then one more each.
Discriminant(i) == IF i = 1 THEN 0 ELSE NoDisplayCode + (i - 2)

CodeOf(name) ==
    Discriminant(CHOOSE i \in 1..Len(ErrorMembers) : ErrorMembers[i] = name)

RECURSIVE ErrorFromLoop(_, _, _)
ErrorFromLoop(i, value, result) ==
    IF i > Len(ErrorMembers) THEN result
    ELSE ErrorFromLoop(i + 1, value,
                       IF Discriminant(i) = value THEN ErrorMembers[i] ELSE result)

\* A conversion that stops comparing one member early.
ErrorFromShort(value) ==
    IF \E i \in 1..(Len(ErrorMembers) - 1) : Discriminant(i) = value
    THEN ErrorMembers[CHOOSE i \in 1..(Len(ErrorMembers) - 1) : Discriminant(i) = value]
    ELSE "NoError"

ErrorFrom(value) == ErrorFromLoop(1, value, "NoError")

VARIABLES
    nvd_initialized,  \* native: nvd_init has succeeded
    nvd_error,        \* native: the code nvd_get_error() returns
    nvd_app_name,     \* native: the application name
    init_ok,          \* an init() call has returned Ok(())
    panicked,         \* the thread is unwinding from a panic
    next_handle,      \* native: the last handle handed out
    frees,            \* native: release calls received, per handle
    uaf,              \* native: handles that were used after a release
    w,                \* the dialog wrapper variable of the program
    img,              \* the Image variable of the program
    last,             \* the last public call and what came of it
    ds,               \* the DynamicString values the program holds
    ntext,            \* native: the strings allocated and their bytes
    running,          \* the thread that makes the program's calls
    init_thread,      \* the thread whose init() call succeeded first
    slots,            \* the caller's i32 variables given to add_action
    scan              \* the strlen call under way: its buffer, len and position

vars == << nvd_initialized, nvd_error, nvd_app_name, init_ok, panicked,
           next_handle, frees, uaf, w, img, last, ds, ntext, running, init_thread,
           slots, scan >>

native == << nvd_initialized, nvd_error, nvd_app_name >>
heap == << next_handle, frees, uaf >>
dyn == << ds, ntext >>
threads == << running, init_thread >>

\* The main thread and one thread it spawns.
Threads == {"main", "spawned"}

DefaultAppName == <<78, 118, 68>>

Call(op, out, val, ncall, nret, args, nargs) ==
    [op |-> op, out |-> out, val |-> val, ncall |-> ncall, nret |-> nret,
     args |-> args, nargs |-> nargs]

NoWrapper ==
    [kind |-> "None", scope |-> "absent", raw |-> NULL, user_input |-> NULL,
     input_text |-> <<>>, nstr |-> NULL, icon |-> NULL, built |-> FALSE,
     actions |-> <<>>, sends |-> 0,
     app_name |-> <<>>, details |-> <<>>, version |-> <<>>]

Wrapper(kind, raw) == [NoWrapper EXCEPT !.kind = kind, !.scope = "live", !.raw = raw]

\* The caller's output slots (`let mut reply = 0;`), the value each starts
\* with and the values bound to actions.
SlotNames == {"reply", "other"}
SlotInitial == 0
ActionValues == {1, 2}

NoString == [alloc |-> FALSE, bytes |-> <<>>]

NoImage == [scope |-> "absent", raw |-> NULL]

\* No strlen call has been made.
NoScan == [s |-> <<>>, len |-> 0, pc |-> "idle", past |-> FALSE, ret |-> 0]

Init ==
    /\ nvd_initialized = FALSE
    /\ nvd_error = 0
    /\ nvd_app_name = DefaultAppName
    /\ init_ok = FALSE
    /\ panicked = FALSE
    /\ next_handle = 0
    /\ frees = [h \in Handles |-> 0]
    /\ uaf = {}
    /\ w = NoWrapper
    /\ img = NoImage
    /\ last = Call("none", "-", "-", FALSE, NULL, <<>>, <<>>)
    /\ ds = <<>>
    /\ ntext = [h \in Handles |-> NoString]
    /\ running = "main"
    /\ init_thread = "none"
    /\ slots = [s \in SlotNames |-> [scope |-> "live", value |-> SlotInitial, stray |-> FALSE]]
    /\ scan = NoScan

(***************************************************************************)
(* The native layer.                                                       *)
(***************************************************************************)
\* nvd_init: 0 on success; once initialised it reports NVD_ALREADY_INITIALIZED.
\* A failing first call reports one of the NvdError codes or some other
\* non-zero integer.
NvdInitReturns ==
    IF nvd_initialized THEN {CodeOf("AlreadyInitialized")}
    ELSE {0, -1, 1} \cup {Discriminant(i) : i \in 2..Len(ErrorMembers)}

\* A native constructor returns NULL or a handle never handed out before.
\* Before nvd_init it returns NULL and sets NVD_NOT_INITIALIZED.
NativeAlloc ==
    IF nvd_initialized /\ next_handle < MaxHandles THEN {NULL, next_handle + 1}
    ELSE {NULL}

NativeErrorAfter(ret) ==
    IF ret # NULL THEN nvd_error
    ELSE IF nvd_initialized THEN CodeOf("OutOfMemory")
    ELSE CodeOf("NotYetInitialized")

\* Images and strings are plain allocations, independent of nvd_init.
PlainAlloc == IF next_handle < MaxHandles THEN {NULL, next_handle + 1} ELSE {NULL}

Max(a, b) == IF a > b THEN a ELSE b

\* A release call on handle h (nvd_free_object, nvd_delete_notification,
\* nvd_destroy_image, nvd_delete_string).
Released(f, h) == IF h = NULL THEN f ELSE [f EXCEPT ![h] = @ + 1]

\* Any other native call that receives the handles hs.
Operated(hs) == uaf \cup {h \in hs \ {NULL} : frees[h] > 0}

CanRelease(h) == IF h = NULL THEN TRUE ELSE frees[h] + 1 < MaxFrees

(***************************************************************************)
(* init() and set_app_name()                                               *)
(***************************************************************************)
\* A result check that takes every non-negative status for success.
InitResultLoose(result) ==
    IF result >= 0
    THEN Call("init", "Ok", "-", TRUE, result, <<>>, <<>>)
    ELSE Call("init", "Err", ErrorFrom(result), TRUE, result, <<>>, <<>>)

\* `if result == 0 { Ok(()) } else { Err(Error::from(result)) }`
InitResult(result) ==
    IF result = 0
    THEN Call("init", "Ok", "-", TRUE, result, <<>>, <<>>)
    ELSE Call("init", "Err", ErrorFrom(result), TRUE, result, <<>>, <<>>)

init(status) ==
    /\ ~panicked
    /\ status \in NvdInitReturns
    /\ nvd_initialized' = (nvd_initialized \/ status = 0)
    /\ init_ok' = (init_ok \/ status = 0)
    /\ last' = InitResult(status)
    /\ init_thread' = IF status = 0 /\ init_thread = "none" THEN running ELSE init_thread
    /\ UNCHANGED << nvd_error, nvd_app_name, panicked, heap, w, img, dyn, running, slots, scan >>

\* The program goes on in another thread (thread::spawn, join).  The
\* wrappers hold raw pointers, so they are neither Send nor Sync: a thread
\* only takes over while no wrapper value is alive.
Switch(t) ==
    /\ ~panicked
    /\ t \in Threads /\ t # running
    /\ w.scope # "live" /\ img.scope # "live"
    /\ \A i \in 1..Len(ds) : ds[i].scope # "live"
    /\ running' = t
    /\ UNCHANGED << native, init_ok, panicked, heap, w, img, last, dyn, init_thread, slots, scan >>

set_app_name(name) ==
    /\ ~panicked
    /\ LET c == c_string(name) IN
       IF ~c.ok
       THEN /\ panicked' = TRUE
            /\ last' = Call("set_app_name", "Panic", "-", FALSE, NULL, <<name>>, <<>>)
            /\ UNCHANGED nvd_app_name
       ELSE /\ nvd_app_name' = NativeRead(c.buf)
            /\ last' = Call("set_app_name", "Unit", "-", TRUE, NULL, <<name>>,
                            <<NativeRead(c.buf)>>)
            /\ UNCHANGED panicked
    /\ UNCHANGED << nvd_initialized, nvd_error, init_ok, heap, w, img, dyn, threads, slots, scan >>

(***************************************************************************)
(* DialogBox                                                               *)
(***************************************************************************)
\* The dialog type, the question buttons and the notification kind only pick
\* the integer handed to the native constructor and are left out.
DialogBoxNew(title, msg, ret) ==
    /\ ~panicked
    /\ w.scope = "absent"
    /\ ret \in NativeAlloc
    /\ LET t == CStringNew(title)
           m == CStringNew(msg)
       IN  IF ~t.ok \/ ~m.ok
           THEN /\ panicked' = TRUE
                /\ last' = Call("DialogBox::new", "Panic", "-", FALSE, NULL,
                                <<title, msg>>, <<>>)
                /\ UNCHANGED << nvd_error, heap, w >>
           ELSE /\ nvd_error' = NativeErrorAfter(ret)
                /\ next_handle' = Max(next_handle, ret)
                /\ IF ret = NULL
                   THEN /\ last' = Call("DialogBox::new", "Err",
                                        ErrorFrom(NativeErrorAfter(ret)), TRUE, ret,
                                        <<title, msg>>,
                                        <<NativeRead(t.buf), NativeRead(m.buf)>>)
                        /\ UNCHANGED w
                   ELSE /\ last' = Call("DialogBox::new", "Ok", "-", TRUE, ret,
                                        <<title, msg>>,
                                        <<NativeRead(t.buf), NativeRead(m.buf)>>)
                        /\ w' = Wrapper("DialogBox", ret)
                /\ UNCHANGED << panicked, frees, uaf >>
    /\ UNCHANGED << nvd_initialized, nvd_app_name, init_ok, img, dyn, threads, slots, scan >>

DialogBoxSetAcceptLabel(label) ==
    /\ ~panicked
    /\ w.scope = "live" /\ w.kind = "DialogBox"
    /\ LET l == CStringNew(label) IN
       IF ~l.ok
       THEN /\ panicked' = TRUE
            /\ last' = Call("DialogBox::set_accept_label", "Panic", "-", FALSE, NULL,
                            <<label>>, <<>>)
            /\ UNCHANGED uaf
       ELSE /\ uaf' = Operated({w.raw})
            /\ last' = Call("DialogBox::set_accept_label", "Unit", "-", TRUE, w.raw,
                            <<label>>, <<NativeRead(l.buf)>>)
            /\ UNCHANGED panicked
    /\ UNCHANGED << native, init_ok, next_handle, frees, w, img, dyn, threads, slots, scan >>

DialogBoxShow ==
    /\ ~panicked
    /\ w.scope = "live" /\ w.kind = "DialogBox"
    /\ uaf' = Operated({w.raw})
    /\ last' = Call("DialogBox::show", "Unit", "-", TRUE, w.raw, <<>>, <<>>)
    /\ UNCHANGED << native, init_ok, panicked, next_handle, frees, w, img, dyn, threads, slots, scan >>

\* Drop runs at scope exit, also while a panic unwinds; it is not a public call
\* and leaves `last` alone.
DropDialogBox ==
    /\ w.scope = "live" /\ w.kind = "DialogBox"
    /\ frees' = Released(frees, w.raw)
    /\ w' = [w EXCEPT !.scope = "dropped"]
    /\ UNCHANGED << native, init_ok, panicked, next_handle, uaf, img, last, dyn, threads, slots, scan >>

(***************************************************************************)
(* QuestionDialog                                                          *)
(***************************************************************************)
ReplyAccepted == 4
LargeReply == 2147483647

\* A conversion whose last branch gives Rejected.
ReplyFromRejecting(value) ==
    IF value = ReplyAccepted THEN "Accepted"
    ELSE IF value = ReplyAccepted + 1 THEN "Cancelled"
    ELSE "Rejected"

\* From<u32> for Reply: Accepted = 0x04, Cancelled, Rejected.
ReplyFrom(value) ==
    IF value = ReplyAccepted THEN "Accepted"
    ELSE IF value = ReplyAccepted + 1 THEN "Cancelled"
    ELSE IF value = ReplyAccepted + 2 THEN "Rejected"
    ELSE "Cancelled"

NativeReplies == {0, 4, 5, 6}

\* The u32 values tried as reply codes: the small ones and a large one.
ReplyCodes == (0..MaxReply) \cup {LargeReply}

\* Reply::from applied by the caller.
ReplyFromCall(value) ==
    /\ ~panicked
    /\ last' = Call("Reply::from", "Value", ReplyFrom(value), FALSE, NULL, <<>>, <<value>>)
    /\ UNCHANGED << native, init_ok, panicked, heap, w, img, dyn, threads, slots, scan >>

QuestionDialogNew(title, msg, ret) ==
    /\ ~panicked
    /\ w.scope = "absent"
    /\ ret \in NativeAlloc
    /\ LET t == cstr(title)
           q == cstr(msg)
       IN  IF ~t.ok \/ ~q.ok
           THEN /\ panicked' = TRUE
                /\ last' = Call("QuestionDialog::new", "Panic", "-", FALSE, NULL,
                                <<title, msg>>, <<>>)
                /\ UNCHANGED << nvd_error, heap, w >>
           ELSE /\ nvd_error' = NativeErrorAfter(ret)
                /\ next_handle' = Max(next_handle, ret)
                /\ last' = Call("QuestionDialog::new", "Value", "-", TRUE, ret,
                                <<title, msg>>,
                                <<NativeRead(t.buf), NativeRead(q.buf)>>)
                /\ w' = Wrapper("QuestionDialog", ret)
                /\ UNCHANGED << panicked, frees, uaf >>
    /\ UNCHANGED << nvd_initialized, nvd_app_name, init_ok, img, dyn, threads, slots, scan >>

get_reply(op, reply) ==
    /\ uaf' = Operated({w.raw})
    /\ last' = Call(op, "Value", ReplyFrom(reply), TRUE, w.raw, <<>>, <<reply>>)

QuestionDialogGetReply(reply) ==
    /\ ~panicked
    /\ w.scope = "live" /\ w.kind = "QuestionDialog"
    /\ get_reply("QuestionDialog::get_reply", reply)
    /\ UNCHANGED << native, init_ok, panicked, next_handle, frees, w, img, dyn, threads, slots, scan >>

QuestionDialogShow(reply) ==
    /\ ~panicked
    /\ w.scope = "live" /\ w.kind = "QuestionDialog"
    /\ get_reply("QuestionDialog::show", reply)
    /\ UNCHANGED << native, init_ok, panicked, next_handle, frees, w, img, dyn, threads, slots, scan >>

\* Object::get_raw of QuestionDialog: self.raw.
QuestionDialogGetRaw ==
    /\ ~panicked
    /\ w.scope = "live" /\ w.kind = "QuestionDialog"
    /\ last' = Call("QuestionDialog::get_raw", "Value", w.raw, FALSE, NULL, <<>>, <<>>)
    /\ UNCHANGED << native, init_ok, panicked, heap, w, img, dyn, threads, slots, scan >>

\* Object::free: nvd_free_object(self.raw); the wrapper keeps the pointer.
free(fr) == Released(fr, w.raw)

QuestionDialogFree ==
    /\ ~panicked
    /\ w.scope = "live" /\ w.kind = "QuestionDialog"
    /\ CanRelease(w.raw)
    /\ frees' = free(frees)
    /\ last' = Call("QuestionDialog::free", "Unit", "-", TRUE, w.raw, <<>>, <<>>)
    /\ UNCHANGED << native, init_ok, panicked, next_handle, uaf, w, img, dyn, threads, slots, scan >>

DropQuestionDialog ==
    /\ w.scope = "live" /\ w.kind = "QuestionDialog"
    /\ frees' = free(frees)
    /\ w' = [w EXCEPT !.scope = "dropped"]
    /\ UNCHANGED << native, init_ok, panicked, next_handle, uaf, img, last, dyn, threads, slots, scan >>

(***************************************************************************)
(* FileDialog                                                              *)
(***************************************************************************)
\* The loop of FileDialog::new: each extension, then ";" and "\0".
RECURSIVE JoinExtensions(_)
JoinExtensions(exts) ==
    IF exts = <<>> THEN <<>>
    ELSE Head(exts) \o <<Semicolon>> \o <<NUL>> \o JoinExtensions(Tail(exts))

FileDialogNew(title, type_of_dialog, file_extensions, ret) ==
    /\ ~panicked
    /\ w.scope = "absent"
    /\ ret \in NativeAlloc
    /\ LET extensions == JoinExtensions(file_extensions)
           t == c_string(title)
           second == IF type_of_dialog = "OpenFile" THEN c_string(extensions)
                     ELSE c_string(<<102, 105, 108, 101, 110, 97, 109, 101>>)
           args == <<title>> \o file_extensions
       IN  IF ~t.ok \/ ~second.ok
           THEN /\ panicked' = TRUE
                /\ last' = Call("FileDialog::new", "Panic", type_of_dialog, FALSE, NULL,
                                args, <<>>)
                /\ UNCHANGED << nvd_error, heap, w >>
           ELSE /\ nvd_error' = NativeErrorAfter(ret)
                /\ next_handle' = Max(next_handle, ret)
                /\ last' = Call("FileDialog::new", "Value", type_of_dialog, TRUE, ret,
                                args,
                                <<NativeRead(t.buf), NativeRead(second.buf), second.buf>>)
                /\ w' = Wrapper("FileDialog", ret)
                /\ UNCHANGED << panicked, frees, uaf >>
    /\ UNCHANGED << nvd_initialized, nvd_app_name, init_ok, img, dyn, threads, slots, scan >>

\* CStr::to_str: the bytes are returned as they are when they are valid UTF-8.
Continuation(b) == b >= 128 /\ b <= 191

RECURSIVE Utf8Valid(_)
Utf8Valid(b) ==
    IF b = <<>> THEN TRUE
    ELSE LET b1 == b[1] IN
         IF b1 < 128 THEN Utf8Valid(Tail(b))
         ELSE IF b1 >= 194 /\ b1 <= 223
         THEN Len(b) >= 2 /\ Continuation(b[2]) /\ Utf8Valid(SubSeq(b, 3, Len(b)))
         ELSE IF b1 >= 224 /\ b1 <= 239
         THEN /\ Len(b) >= 3 /\ Continuation(b[2]) /\ Continuation(b[3])
              /\ (b1 = 224 => b[2] >= 160)
              /\ (b1 = 237 => b[2] <= 159)
              /\ Utf8Valid(SubSeq(b, 4, Len(b)))
         ELSE IF b1 >= 240 /\ b1 <= 244
         THEN /\ Len(b) >= 4 /\ Continuation(b[2]) /\ Continuation(b[3])
              /\ Continuation(b[4])
              /\ (b1 = 240 => b[2] >= 144)
              /\ (b1 = 244 => b[2] <= 143)
              /\ Utf8Valid(SubSeq(b, 5, Len(b)))
         ELSE FALSE

\* The result of retrieve_filename for the buffer the native layer left:
\* raw_buffer is a record [null, bytes].
RetrieveInverted(raw_buffer) ==
    IF ~raw_buffer.null THEN [out |-> "None", path |-> <<>>]
    ELSE IF ~Utf8Valid(raw_buffer.bytes) THEN [out |-> "Panic", path |-> <<>>]
    ELSE [out |-> "Some", path |-> raw_buffer.bytes]

Retrieve(raw_buffer) ==
    IF raw_buffer.null THEN [out |-> "None", path |-> <<>>]
    ELSE IF ~Utf8Valid(raw_buffer.bytes) THEN [out |-> "Panic", path |-> <<>>]
    ELSE [out |-> "Some", path |-> raw_buffer.bytes]

\* nvd_get_file_location leaves the buffer null or points it at a C string.
\* For a dialog that was never created (raw is NULL) the buffer stays null.
NativeLocations(paths) ==
    {[null |-> TRUE, bytes |-> <<>>]}
        \cup (IF w.raw = NULL THEN {} ELSE {[null |-> FALSE, bytes |-> p] : p \in paths})

retrieve_filename(raw_buffer) ==
    /\ ~panicked
    /\ w.scope = "live" /\ w.kind = "FileDialog"
    /\ uaf' = Operated({w.raw})
    /\ LET r == Retrieve(raw_buffer) IN
       /\ panicked' = (r.out = "Panic")
       /\ last' = Call("FileDialog::retrieve_filename", r.out, "-", TRUE, w.raw,
                       IF r.out = "Some" THEN <<r.path>> ELSE <<>>,
                       IF raw_buffer.null THEN <<>> ELSE <<raw_buffer.bytes>>)
    /\ UNCHANGED << native, init_ok, next_handle, frees, w, img, dyn, threads, slots, scan >>

\* FileDialog has no Drop: leaving scope calls nothing.
ScopeExitFileDialog ==
    /\ w.scope = "live" /\ w.kind = "FileDialog"
    /\ w' = [w EXCEPT !.scope = "dropped"]
    /\ UNCHANGED << native, init_ok, panicked, heap, img, last, dyn, threads, slots, scan >>

(***************************************************************************)
(* DynamicString                                                           *)
(***************************************************************************)
\* Host text (&str, String) is valid UTF-8; it may hold NUL bytes.
HostTexts == {s \in StringsOver({NUL, 97, 195, 169}, MaxTextLen) : Utf8Valid(s)}

\* The bytes a native string may hold; they need not be valid UTF-8.
NativeTexts == StringsOver({97, 195, 169}, MaxTextLen)

Replacement == <<239, 191, 189>>

\* The number of bytes of the UTF-8 character at the head of b, 0 if there is none.
CharLen(b) ==
    IF b = <<>> THEN 0
    ELSE IF b[1] < 128 THEN 1
    ELSE IF b[1] >= 194 /\ b[1] <= 223
    THEN IF Len(b) >= 2 /\ Utf8Valid(SubSeq(b, 1, 2)) THEN 2 ELSE 0
    ELSE IF b[1] >= 224 /\ b[1] <= 239
    THEN IF Len(b) >= 3 /\ Utf8Valid(SubSeq(b, 1, 3)) THEN 3 ELSE 0
    ELSE IF b[1] >= 240 /\ b[1] <= 244
    THEN IF Len(b) >= 4 /\ Utf8Valid(SubSeq(b, 1, 4)) THEN 4 ELSE 0
    ELSE 0

\* The second byte a leading byte admits.
SecondOk(b1, b2) ==
    /\ Continuation(b2)
    /\ (b1 = 224 => b2 >= 160)
    /\ (b1 = 237 => b2 <= 159)
    /\ (b1 = 240 => b2 >= 144)
    /\ (b1 = 244 => b2 <= 143)

\* The length of the ill-formed sequence at the head of b that one U+FFFD replaces.
BadLen(b) ==
    IF b[1] >= 224 /\ b[1] <= 244 /\ Len(b) >= 2 /\ SecondOk(b[1], b[2])
    THEN IF b[1] >= 240 /\ Len(b) >= 3 /\ Continuation(b[3]) THEN 3 ELSE 2
    ELSE 1

\* A decoding that replaces every byte above 0x7F on its own.
RECURSIVE LossyBytewise(_)
LossyBytewise(b) ==
    IF b = <<>> THEN <<>>
    ELSE (IF b[1] < 128 THEN <<b[1]>> ELSE Replacement) \o LossyBytewise(Tail(b))

\* CStr::to_string_lossy: valid UTF-8 is kept, ill-formed sequences become U+FFFD.
RECURSIVE ToStringLossy(_)
ToStringLossy(b) ==
    IF b = <<>> THEN <<>>
    ELSE IF CharLen(b) > 0
    THEN SubSeq(b, 1, CharLen(b)) \o ToStringLossy(SubSeq(b, CharLen(b) + 1, Len(b)))
    ELSE Replacement \o ToStringLossy(SubSeq(b, BadLen(b) + 1, Len(b)))

\* The program's DynamicString variables; ds holds their values in the order
\* they were made.
StringVars == <<"first", "second">>

\* A DynamicString value: the constructor that made it, its two fields, and
\* whether the variable holding it is still in scope.
DynString(via, nat, this) ==
    [via |-> via, native |-> nat, this |-> this, scope |-> "live"]

\* nvd_string_new(data): NULL or a fresh string holding a copy of the C string
\* (the empty string for a null data pointer).
NativeString(bytes) == [alloc |-> TRUE, bytes |-> bytes]

Stored(ret, bytes) == IF ret = NULL THEN ntext ELSE [ntext EXCEPT ![ret] = NativeString(bytes)]

\* The native strings a pointer of the program can point to.
StringHandles == {h \in Handles : ntext[h].alloc}

\* nvd_string_to_cstr on a string: its bytes; on a released string, anything.
CStrOf(h) == IF frees[h] > 0 THEN {ntext[h].bytes, <<>>} ELSE {ntext[h].bytes}

\* new(data): data is [some, s]; None passes a null pointer.
DynamicStringNew(data, ret) ==
    /\ ~panicked
    /\ Len(ds) < Len(StringVars)
    /\ ret \in PlainAlloc
    /\ LET string == IF data.some THEN cstr(data.s) ELSE [ok |-> TRUE, buf |-> <<NUL>>]
           this == IF data.some THEN data.s ELSE <<>>
           args == IF data.some THEN <<data.s>> ELSE <<>>
       IN  IF ~string.ok
           THEN /\ panicked' = TRUE
                /\ last' = Call("DynamicString::new", "Panic", "-", FALSE, NULL, args, <<>>)
                /\ UNCHANGED << next_handle, ds, ntext >>
           ELSE /\ next_handle' = Max(next_handle, ret)
                /\ ntext' = Stored(ret, NativeRead(string.buf))
                /\ IF ret = NULL
                   THEN /\ panicked' = TRUE
                        /\ last' = Call("DynamicString::new", "Panic", "-", TRUE, ret, args,
                                        <<NativeRead(string.buf)>>)
                        /\ UNCHANGED ds
                   ELSE /\ ds' = Append(ds, DynString("new", ret, this))
                        /\ last' = Call("DynamicString::new", "Value", this, TRUE, ret, args,
                                        <<NativeRead(string.buf)>>)
                        /\ UNCHANGED panicked
    /\ UNCHANGED << native, init_ok, frees, uaf, w, img, threads, slots, scan >>

\* From<&str> and From<String>: the same conversion without the null check.
FromHost(op, via, s, ret) ==
    /\ ~panicked
    /\ Len(ds) < Len(StringVars)
    /\ ret \in PlainAlloc
    /\ LET string == cstr(s) IN
       IF ~string.ok
       THEN /\ panicked' = TRUE
            /\ last' = Call(op, "Panic", "-", FALSE, NULL, <<s>>, <<>>)
            /\ UNCHANGED << next_handle, ds, ntext >>
       ELSE /\ next_handle' = Max(next_handle, ret)
            /\ ntext' = Stored(ret, NativeRead(string.buf))
            /\ ds' = Append(ds, DynString(via, ret, s))
            /\ last' = Call(op, "Value", s, TRUE, ret, <<s>>, <<NativeRead(string.buf)>>)
            /\ UNCHANGED panicked
    /\ UNCHANGED << native, init_ok, frees, uaf, w, img, threads, slots, scan >>

DynamicStringFromStr(s, ret) == FromHost("DynamicString::from(&str)", "from_str", s, ret)

DynamicStringFromString(s, ret) ==
    FromHost("DynamicString::from(String)", "from_string", s, ret)

\* From<*mut NvdDynamicString>: asserts the pointer is not null, keeps it and
\* mirrors the native bytes.
DynamicStringFromRaw(value, bytes) ==
    /\ ~panicked
    /\ Len(ds) < Len(StringVars)
    /\ IF value = NULL
       THEN /\ bytes = <<>>
            /\ panicked' = TRUE
            /\ last' = Call("DynamicString::from(*mut)", "Panic", "-", FALSE, value,
                            <<>>, <<>>)
            /\ UNCHANGED << uaf, ds >>
       ELSE /\ bytes \in CStrOf(value)
            /\ uaf' = Operated({value})
            /\ ds' = Append(ds, DynString("from_raw", value, ToStringLossy(bytes)))
            /\ last' = Call("DynamicString::from(*mut)", "Value", ToStringLossy(bytes),
                            TRUE, value, <<>>, <<bytes>>)
            /\ UNCHANGED panicked
    /\ UNCHANGED << native, init_ok, next_handle, frees, w, img, ntext, threads, slots, scan >>

\* as_str and Display both give the mirror `this`.
DynamicStringAsStr(i) ==
    /\ ~panicked
    /\ i \in 1..Len(ds) /\ ds[i].scope = "live"
    /\ last' = Call("DynamicString::as_str", "Value", ds[i].this, FALSE, ds[i].native,
                    <<ds[i].via>>, <<>>)
    /\ UNCHANGED << native, init_ok, panicked, heap, w, img, dyn, threads, slots, scan >>

\* as_ptr: asserts that the native pointer is not null, then asks the native
\* layer for the C string.
DynamicStringAsPtr(i) ==
    /\ ~panicked
    /\ i \in 1..Len(ds) /\ ds[i].scope = "live"
    /\ IF ds[i].native = NULL
       THEN /\ panicked' = TRUE
            /\ last' = Call("DynamicString::as_ptr", "Panic", "-", FALSE, NULL,
                            <<ds[i].via>>, <<>>)
            /\ UNCHANGED uaf
       ELSE /\ uaf' = Operated({ds[i].native})
            /\ last' = Call("DynamicString::as_ptr", "Value", "-", TRUE, ds[i].native,
                            <<ds[i].via>>, <<>>)
            /\ UNCHANGED panicked
    /\ UNCHANGED << native, init_ok, next_handle, frees, w, img, dyn, threads, slots, scan >>

\* duplicate: nvd_duplicate_string(self.native) and a clone of the mirror.
\* The native layer returns NULL or a fresh string with the bytes of the
\* source (a null source gives NULL).
NativeDuplicate(src) == IF src = NULL THEN {NULL} ELSE PlainAlloc

\* A copy that takes over the pointer of the source.
duplicateShallow(op, via, src, ret, bytes) ==
    /\ ret \in NativeDuplicate(src.native)
    /\ bytes \in (IF src.native = NULL THEN {<<>>} ELSE CStrOf(src.native))
    /\ next_handle' = Max(next_handle, ret)
    /\ ntext' = Stored(ret, bytes)
    /\ uaf' = Operated({src.native})
    /\ ds' = Append(ds, DynString(via, src.native, src.this))
    /\ last' = Call(op, "Value", src.this, TRUE, src.native, <<src.this>>, <<bytes>>)

duplicate(op, via, src, ret, bytes) ==
    /\ ret \in NativeDuplicate(src.native)
    /\ bytes \in (IF src.native = NULL THEN {<<>>} ELSE CStrOf(src.native))
    /\ next_handle' = Max(next_handle, ret)
    /\ ntext' = Stored(ret, bytes)
    /\ uaf' = Operated({src.native})
    /\ ds' = Append(ds, DynString(via, ret, src.this))
    /\ last' = Call(op, "Value", src.this, TRUE, ret, <<src.this>>, <<bytes>>)

DynamicStringDuplicate(i, ret, bytes) ==
    /\ ~panicked
    /\ Len(ds) < Len(StringVars)
    /\ i \in 1..Len(ds) /\ ds[i].scope = "live"
    /\ duplicate("DynamicString::duplicate", "duplicate", ds[i], ret, bytes)
    /\ UNCHANGED << native, init_ok, panicked, frees, w, img, threads, slots, scan >>

\* clone: assert!(!self.native.is_null()), then duplicate.
DynamicStringClone(i, ret, bytes) ==
    /\ ~panicked
    /\ Len(ds) < Len(StringVars)
    /\ i \in 1..Len(ds) /\ ds[i].scope = "live"
    /\ IF ds[i].native = NULL
       THEN /\ ret = NULL /\ bytes = <<>>
            /\ panicked' = TRUE
            /\ last' = Call("DynamicString::clone", "Panic", "-", FALSE, NULL, <<>>, <<>>)
            /\ UNCHANGED << heap, dyn >>
       ELSE /\ duplicate("DynamicString::clone", "clone", ds[i], ret, bytes)
            /\ UNCHANGED << panicked, frees >>
    /\ UNCHANGED << native, init_ok, w, img, threads, slots, scan >>

\* Drop: nvd_delete_string(self.native).
DropDynamicString(i) ==
    /\ i \in 1..Len(ds) /\ ds[i].scope = "live"
    /\ frees' = Released(frees, ds[i].native)
    /\ ds' = [ds EXCEPT ![i].scope = "dropped"]
    /\ UNCHANGED << native, init_ok, panicked, next_handle, uaf, w, img, last, ntext, threads, slots, scan >>

(***************************************************************************)
(* InputBox                                                                *)
(***************************************************************************)
InputBoxNew(title, prompt, ret) ==
    /\ ~panicked
    /\ w.scope = "absent"
    /\ ret \in NativeAlloc
    /\ LET t == cstr(title)
           q == cstr(prompt)
       IN  IF ~t.ok \/ ~q.ok
           THEN /\ panicked' = TRUE
                /\ last' = Call("InputBox::new", "Panic", "-", FALSE, NULL,
                                <<title, prompt>>, <<>>)
                /\ UNCHANGED << nvd_error, heap, w >>
           ELSE /\ nvd_error' = NativeErrorAfter(ret)
                /\ next_handle' = Max(next_handle, ret)
                /\ last' = Call("InputBox::new", "Value", "-", TRUE, ret,
                                <<title, prompt>>,
                                <<NativeRead(t.buf), NativeRead(q.buf)>>)
                /\ w' = Wrapper("InputBox", ret)
                /\ UNCHANGED << panicked, frees, uaf >>
    /\ UNCHANGED << nvd_initialized, nvd_app_name, init_ok, img, dyn, threads, slots, scan >>

\* nvd_show_input_box leaves the box's string as it was, or, when the box has
\* none yet, may allocate it; nvd_input_box_get_string returns that pointer.
NativeInputString ==
    IF w.raw = NULL THEN {NULL}
    ELSE IF w.nstr # NULL THEN {w.nstr}
    ELSE PlainAlloc

\* The bytes display finds in the native string: what the user typed into a
\* string made by this call, otherwise what the string holds.
DisplayBytes(str) ==
    IF str = NULL THEN {<<>>}
    ELSE IF w.nstr = NULL THEN NativeTexts
    ELSE CStrOf(str)

\* display: the native string is wrapped (From<*mut NvdDynamicString> asserts
\* it is not null and reads it), then the assignment drops the old user_input.
InputBoxDisplay(str, bytes) ==
    /\ ~panicked
    /\ w.scope = "live" /\ w.kind = "InputBox"
    /\ str \in NativeInputString
    /\ bytes \in DisplayBytes(str)
    /\ CanRelease(w.user_input)
    /\ next_handle' = Max(next_handle, str)
    /\ IF str = NULL
       THEN /\ panicked' = TRUE
            /\ uaf' = Operated({w.raw})
            /\ last' = Call("InputBox::display", "Panic", "-", TRUE, w.raw, <<>>, <<>>)
            /\ UNCHANGED << frees, w, ntext >>
       ELSE /\ uaf' = Operated({w.raw, str})
            /\ frees' = Released(frees, w.user_input)
            /\ ntext' = IF w.nstr = NULL THEN Stored(str, bytes) ELSE ntext
            /\ w' = [w EXCEPT !.nstr = str, !.user_input = str,
                              !.input_text = ToStringLossy(bytes)]
            /\ last' = Call("InputBox::display", "Unit", "-", TRUE, w.raw, <<>>, <<bytes>>)
            /\ UNCHANGED panicked
    /\ UNCHANGED << native, init_ok, img, ds, threads, slots, scan >>

\* get_input: self.user_input.clone(); None stays None, Some(s) is s.clone(),
\* and the caller holds the value returned.
InputBoxGetInput(ret, bytes) ==
    /\ ~panicked
    /\ w.scope = "live" /\ w.kind = "InputBox"
    /\ IF w.user_input = NULL
       THEN /\ ret = NULL /\ bytes = <<>>
            /\ last' = Call("InputBox::get_input", "None", "-", FALSE, NULL, <<>>, <<>>)
            /\ UNCHANGED << heap, dyn >>
       ELSE /\ Len(ds) < Len(StringVars)
            /\ duplicate("InputBox::get_input", "clone",
                         [native |-> w.user_input, this |-> w.input_text], ret, bytes)
            /\ UNCHANGED frees
    /\ UNCHANGED << native, init_ok, panicked, w, img, threads, slots, scan >>

\* Object::show and Object::get_raw of InputBox are unimplemented!().
InputBoxShow ==
    /\ ~panicked
    /\ w.scope = "live" /\ w.kind = "InputBox"
    /\ panicked' = TRUE
    /\ last' = Call("InputBox::show", "Panic", "-", FALSE, NULL, <<>>, <<>>)
    /\ UNCHANGED << native, init_ok, heap, w, img, dyn, threads, slots, scan >>

InputBoxGetRaw ==
    /\ ~panicked
    /\ w.scope = "live" /\ w.kind = "InputBox"
    /\ panicked' = TRUE
    /\ last' = Call("InputBox::get_raw", "Panic", "-", FALSE, NULL, <<>>, <<>>)
    /\ UNCHANGED << native, init_ok, heap, w, img, dyn, threads, slots, scan >>

InputBoxFree ==
    /\ ~panicked
    /\ w.scope = "live" /\ w.kind = "InputBox"
    /\ CanRelease(w.raw)
    /\ frees' = free(frees)
    /\ last' = Call("InputBox::free", "Unit", "-", TRUE, w.raw, <<>>, <<>>)
    /\ UNCHANGED << native, init_ok, panicked, next_handle, uaf, w, img, dyn, threads, slots, scan >>

\* Drop calls free(); then the field user_input is dropped (nvd_delete_string).
DropInputBox ==
    /\ w.scope = "live" /\ w.kind = "InputBox"
    /\ frees' = Released(free(frees), w.user_input)
    /\ w' = [w EXCEPT !.scope = "dropped"]
    /\ UNCHANGED << native, init_ok, panicked, next_handle, uaf, img, last, dyn, threads, slots, scan >>

(***************************************************************************)
(* Notification                                                            *)
(***************************************************************************)
NotificationNew(title, msg, ret) ==
    /\ ~panicked
    /\ w.scope = "absent"
    /\ ret \in NativeAlloc
    /\ LET t == c_string(title)
           m == c_string(msg)
       IN  IF ~t.ok \/ ~m.ok
           THEN /\ panicked' = TRUE
                /\ last' = Call("Notification::new", "Panic", "-", FALSE, NULL,
                                <<title, msg>>, <<>>)
                /\ UNCHANGED << nvd_error, heap, w >>
           ELSE /\ nvd_error' = NativeErrorAfter(ret)
                /\ next_handle' = Max(next_handle, ret)
                /\ IF ret = NULL
                   THEN /\ last' = Call("Notification::new", "Err", "OutOfMemory", TRUE,
                                        ret, <<title, msg>>,
                                        <<NativeRead(t.buf), NativeRead(m.buf)>>)
                        /\ UNCHANGED w
                   ELSE /\ last' = Call("Notification::new", "Ok", "-", TRUE, ret,
                                        <<title, msg>>,
                                        <<NativeRead(t.buf), NativeRead(m.buf)>>)
                        /\ w' = Wrapper("Notification", ret)
                /\ UNCHANGED << panicked, frees, uaf >>
    /\ UNCHANGED << nvd_initialized, nvd_app_name, init_ok, img, dyn, threads, slots, scan >>

\* add_action: the name is converted, and the value and the address of the
\* caller's slot go to the native layer, which keeps them with the action.
NotificationAddAction(name, val, ptr) ==
    /\ ~panicked
    /\ w.scope = "live" /\ w.kind = "Notification"
    /\ Len(w.actions) < MaxActions
    /\ slots[ptr].scope = "live"
    /\ LET a == c_string(name) IN
       IF ~a.ok
       THEN /\ panicked' = TRUE
            /\ last' = Call("Notification::add_action", "Panic", "-", FALSE, NULL,
                            <<name>>, <<>>)
            /\ UNCHANGED << uaf, w >>
       ELSE /\ uaf' = Operated({w.raw})
            /\ w' = [w EXCEPT !.actions =
                        Append(@, [name |-> NativeRead(a.buf), val |-> val,
                                   ptr |-> ptr, fired |-> FALSE])]
            /\ last' = Call("Notification::add_action", "Unit", val, TRUE, w.raw,
                            <<name>>, <<NativeRead(a.buf)>>)
            /\ UNCHANGED panicked
    /\ UNCHANGED << native, init_ok, next_handle, frees, img, dyn, threads, slots, scan >>

\* send: nvd_send_notification(self.raw), on every call.
NotificationSend ==
    /\ ~panicked
    /\ w.scope = "live" /\ w.kind = "Notification"
    /\ w.sends < MaxSends
    /\ uaf' = Operated({w.raw})
    /\ w' = [w EXCEPT !.sends = @ + 1]
    /\ last' = Call("Notification::send", "Unit", "-", TRUE, w.raw, <<>>, <<>>)
    /\ UNCHANGED << native, init_ok, panicked, next_handle, frees, img, dyn, threads, slots, scan >>

\* The native layer: the user picks action i of a notification that was sent,
\* and the value bound to it is written through the pointer kept for it.  A
\* write through the pointer of a slot that has gone out of scope lands in
\* memory the caller no longer owns.
NativeWrite(ptr, val) ==
    IF slots[ptr].scope = "live"
    THEN [slots EXCEPT ![ptr].value = val]
    ELSE [slots EXCEPT ![ptr].stray = TRUE]

ActionFires(i) ==
    /\ w.scope = "live" /\ w.kind = "Notification"
    /\ w.raw # NULL /\ w.sends > 0
    /\ i \in 1..Len(w.actions)
    /\ slots' = NativeWrite(w.actions[i].ptr, w.actions[i].val)
    /\ w' = [w EXCEPT !.actions[i].fired = TRUE]
    /\ UNCHANGED << native, init_ok, panicked, heap, img, last, dyn, threads, scan >>

\* The block that declared the slot ends.
SlotScopeExit(ptr) ==
    /\ slots[ptr].scope = "live"
    /\ slots' = [slots EXCEPT ![ptr].scope = "gone"]
    /\ UNCHANGED << native, init_ok, panicked, heap, w, img, last, dyn, threads, scan >>

DropNotification ==
    /\ w.scope = "live" /\ w.kind = "Notification"
    /\ frees' = Released(frees, w.raw)
    /\ w' = [w EXCEPT !.scope = "dropped"]
    /\ UNCHANGED << native, init_ok, panicked, next_handle, uaf, img, last, dyn, threads, slots, scan >>

(***************************************************************************)
(* Image                                                                   *)
(***************************************************************************)
\* from_filename: exists is filename.exists(), utf8 whether to_str() is Some.
ImageFromFilename(exists, utf8, ret) ==
    /\ ~panicked
    /\ img.scope = "absent"
    /\ ret \in PlainAlloc
    /\ IF ~exists
       THEN /\ last' = Call("Image::from_filename", "Err", "PathNotFound", FALSE, NULL,
                            <<exists, utf8>>, <<>>)
            /\ UNCHANGED << panicked, next_handle, img >>
       ELSE IF ~utf8
       THEN /\ panicked' = TRUE
            /\ last' = Call("Image::from_filename", "Panic", "-", FALSE, NULL,
                            <<exists, utf8>>, <<>>)
            /\ UNCHANGED << next_handle, img >>
       ELSE /\ next_handle' = Max(next_handle, ret)
            /\ IF ret = NULL
               THEN /\ last' = Call("Image::from_filename", "Err", "UnknownError", TRUE,
                                    ret, <<exists, utf8>>, <<>>)
                    /\ UNCHANGED img
               ELSE /\ last' = Call("Image::from_filename", "Ok", "-", TRUE, ret,
                                    <<exists, utf8>>, <<>>)
                    /\ img' = [scope |-> "live", raw |-> ret]
            /\ UNCHANGED panicked
    /\ UNCHANGED << native, init_ok, frees, uaf, w, dyn, threads, slots, scan >>

DataLens == {0, 1, 2, 4, 8}

\* from_data with the format test ahead of the length test.
ImageFromDataFormatFirst(len, ret) ==
    /\ ~panicked
    /\ img.scope = "absent"
    /\ ret \in PlainAlloc
    /\ IF len % 4 # 0
       THEN /\ last' = Call("Image::from_data", "Err", "InvalidFormat", FALSE, NULL,
                            <<len>>, <<>>)
            /\ UNCHANGED << next_handle, img >>
       ELSE IF len <= 1
       THEN /\ last' = Call("Image::from_data", "Err", "ReadingError", FALSE, NULL,
                            <<len>>, <<>>)
            /\ UNCHANGED << next_handle, img >>
       ELSE /\ next_handle' = Max(next_handle, ret)
            /\ IF ret = NULL
               THEN /\ last' = Call("Image::from_data", "Err", "UnknownError", TRUE, ret,
                                    <<len>>, <<>>)
                    /\ UNCHANGED img
               ELSE /\ last' = Call("Image::from_data", "Ok", "-", TRUE, ret, <<len>>, <<>>)
                    /\ img' = [scope |-> "live", raw |-> ret]
    /\ UNCHANGED << native, init_ok, panicked, frees, uaf, w, dyn, threads, slots, scan >>

ImageFromData(len, ret) ==
    /\ ~panicked
    /\ img.scope = "absent"
    /\ ret \in PlainAlloc
    /\ IF len <= 1
       THEN /\ last' = Call("Image::from_data", "Err", "ReadingError", FALSE, NULL,
                            <<len>>, <<>>)
            /\ UNCHANGED << next_handle, img >>
       ELSE IF len % 4 # 0
       THEN /\ last' = Call("Image::from_data", "Err", "InvalidFormat", FALSE, NULL,
                            <<len>>, <<>>)
            /\ UNCHANGED << next_handle, img >>
       ELSE /\ next_handle' = Max(next_handle, ret)
            /\ IF ret = NULL
               THEN /\ last' = Call("Image::from_data", "Err", "UnknownError", TRUE, ret,
                                    <<len>>, <<>>)
                    /\ UNCHANGED img
               ELSE /\ last' = Call("Image::from_data", "Ok", "-", TRUE, ret, <<len>>, <<>>)
                    /\ img' = [scope |-> "live", raw |-> ret]
    /\ UNCHANGED << native, init_ok, panicked, frees, uaf, w, dyn, threads, slots, scan >>

DropImage ==
    /\ img.scope = "live"
    /\ frees' = Released(frees, img.raw)
    /\ img' = [img EXCEPT !.scope = "dropped"]
    /\ UNCHANGED << native, init_ok, panicked, next_handle, uaf, w, last, dyn, threads, slots, scan >>

(***************************************************************************)
(* AboutDialog                                                             *)
(***************************************************************************)
AboutDialogNew ==
    /\ ~panicked
    /\ w.scope = "absent"
    /\ w' = Wrapper("AboutDialog", NULL)
    /\ last' = Call("AboutDialog::new", "Value", "-", FALSE, NULL, <<>>, <<>>)
    /\ UNCHANGED << native, init_ok, panicked, heap, img, dyn, threads, slots, scan >>

AboutDialogName(name) ==
    /\ ~panicked
    /\ w.scope = "live" /\ w.kind = "AboutDialog"
    /\ w' = [w EXCEPT !.app_name = name]
    /\ last' = Call("AboutDialog::name", "Value", "-", FALSE, NULL, <<name>>, <<>>)
    /\ UNCHANGED << native, init_ok, panicked, heap, img, dyn, threads, slots, scan >>

AboutDialogDescription(description) ==
    /\ ~panicked
    /\ w.scope = "live" /\ w.kind = "AboutDialog"
    /\ w' = [w EXCEPT !.details = description]
    /\ last' = Call("AboutDialog::description", "Value", "-", FALSE, NULL,
                    <<description>>, <<>>)
    /\ UNCHANGED << native, init_ok, panicked, heap, img, dyn, threads, slots, scan >>

AboutDialogVersion(version) ==
    /\ ~panicked
    /\ w.scope = "live" /\ w.kind = "AboutDialog"
    /\ w' = [w EXCEPT !.version = version]
    /\ last' = Call("AboutDialog::version", "Value", "-", FALSE, NULL, <<version>>, <<>>)
    /\ UNCHANGED << native, init_ok, panicked, heap, img, dyn, threads, slots, scan >>

\* icon(): the Image moves into the dialog; an icon set before is dropped.
AboutDialogIcon ==
    /\ ~panicked
    /\ w.scope = "live" /\ w.kind = "AboutDialog"
    /\ img.scope = "live"
    /\ frees' = Released(frees, w.icon)
    /\ w' = [w EXCEPT !.icon = img.raw]
    /\ img' = [img EXCEPT !.scope = "moved"]
    /\ last' = Call("AboutDialog::icon", "Value", "-", FALSE, NULL, <<>>, <<>>)
    /\ UNCHANGED << native, init_ok, panicked, next_handle, uaf, dyn, threads, slots, scan >>

AboutDialogBuild(ret) ==
    /\ ~panicked
    /\ w.scope = "live" /\ w.kind = "AboutDialog"
    /\ ret \in NativeAlloc
    /\ LET n == cstr(w.app_name)
           d == cstr(w.details)
           v == cstr(w.version)
           args == <<w.app_name, w.details, w.version>>
       IN  IF ~n.ok \/ ~d.ok \/ ~v.ok
           THEN /\ panicked' = TRUE
                /\ last' = Call("AboutDialog::build", "Panic", "-", FALSE, NULL, args, <<>>)
                /\ UNCHANGED << nvd_error, heap, w >>
           ELSE /\ nvd_error' = NativeErrorAfter(ret)
                /\ next_handle' = Max(next_handle, ret)
                /\ uaf' = Operated({ret, w.icon})
                /\ w' = [w EXCEPT !.raw = ret, !.built = TRUE]
                /\ last' = Call("AboutDialog::build", "Value", "-", TRUE, ret, args,
                                <<NativeRead(n.buf), NativeRead(d.buf), NativeRead(v.buf)>>)
                /\ UNCHANGED << panicked, frees >>
    /\ UNCHANGED << nvd_initialized, nvd_app_name, init_ok, img, dyn, threads, slots, scan >>

AboutDialogShow ==
    /\ ~panicked
    /\ w.scope = "live" /\ w.kind = "AboutDialog"
    /\ uaf' = Operated({w.raw})
    /\ last' = Call("AboutDialog::show", "Unit", "-", TRUE, w.raw, <<>>, <<>>)
    /\ UNCHANGED << native, init_ok, panicked, next_handle, frees, w, img, dyn, threads, slots, scan >>

\* AboutDialog has no Drop: leaving scope drops its fields, so the icon's
\* Image is destroyed, and nothing is called for raw.
ScopeExitAboutDialog ==
    /\ w.scope = "live" /\ w.kind = "AboutDialog"
    /\ frees' = Released(frees, w.icon)
    /\ w' = [w EXCEPT !.scope = "dropped"]
    /\ UNCHANGED << native, init_ok, panicked, next_handle, uaf, img, last, dyn, threads, slots, scan >>

(***************************************************************************)
(* The program: any sequence of public calls and scope exits.              *)
(***************************************************************************)
FileDialogTypes == {"OpenFile", "SaveFile"}
SampleExtLists == {<<>>, <<TextPlain>>}
SamplePaths == {TextPlain, <<195>>}
SampleInputs == {<<>>, <<97>>}

Next ==
    \/ \E status \in NvdInitReturns : init(status)
    \/ \E title, msg \in Texts, ret \in NativeAlloc : DialogBoxNew(title, msg, ret)
    \/ \E label \in Texts : DialogBoxSetAcceptLabel(label)
    \/ DialogBoxShow
    \/ DropDialogBox
    \/ \E title, msg \in Texts, ret \in NativeAlloc : QuestionDialogNew(title, msg, ret)
    \/ \E reply \in NativeReplies : QuestionDialogGetReply(reply)
    \/ \E reply \in NativeReplies : QuestionDialogShow(reply)
    \/ QuestionDialogFree
    \/ DropQuestionDialog
    \/ \E title \in Texts, ty \in FileDialogTypes, exts \in SampleExtLists,
          ret \in NativeAlloc : FileDialogNew(title, ty, exts, ret)
    \/ \E b \in NativeLocations(SamplePaths) : retrieve_filename(b)
    \/ ScopeExitFileDialog
    \/ \E title, prompt \in Texts, ret \in NativeAlloc : InputBoxNew(title, prompt, ret)
    \/ \E str \in NativeInputString, bytes \in SampleInputs : InputBoxDisplay(str, bytes)
    \/ InputBoxShow
    \/ InputBoxFree
    \/ DropInputBox
    \/ \E title, msg \in Texts, ret \in NativeAlloc : NotificationNew(title, msg, ret)
    \/ \E name \in Texts : NotificationAddAction(name, 1, "reply")
    \/ NotificationSend
    \/ DropNotification
    \/ \E exists, utf8 \in BOOLEAN, ret \in PlainAlloc : ImageFromFilename(exists, utf8, ret)
    \/ \E len \in DataLens, ret \in PlainAlloc : ImageFromData(len, ret)
    \/ DropImage
    \/ AboutDialogNew
    \/ \E name \in Texts : AboutDialogName(name)
    \/ \E description \in Texts : AboutDialogDescription(description)
    \/ \E version \in Texts : AboutDialogVersion(version)
    \/ AboutDialogIcon
    \/ \E ret \in NativeAlloc : AboutDialogBuild(ret)
    \/ AboutDialogShow
    \/ ScopeExitAboutDialog
    \/ \E name \in Texts : set_app_name(name)

Spec == Init /\ [][Next]_vars

(***************************************************************************)
(* The file dialog alone, over every extension list and every native path  *)
(* within the bounds.                                                      *)
(***************************************************************************)
NextFile ==
    \/ \E status \in NvdInitReturns : init(status)
    \/ \E title \in Texts, ty \in FileDialogTypes, exts \in ExtLists,
          ret \in NativeAlloc : FileDialogNew(title, ty, exts, ret)
    \/ \E b \in NativeLocations(PathStrings) : retrieve_filename(b)
    \/ ScopeExitFileDialog

SpecFile == Init /\ [][NextFile]_vars

(***************************************************************************)
(* The two types that implement Object, with every operation of the trait, *)
(* and the reply conversion over the reply codes.                          *)
(***************************************************************************)
NextObject ==
    \/ \E status \in NvdInitReturns : init(status)
    \/ \E title, msg \in Texts, ret \in NativeAlloc : QuestionDialogNew(title, msg, ret)
    \/ \E reply \in ReplyCodes : QuestionDialogGetReply(reply)
    \/ \E reply \in ReplyCodes : QuestionDialogShow(reply)
    \/ QuestionDialogGetRaw
    \/ QuestionDialogFree
    \/ DropQuestionDialog
    \/ \E title, prompt \in Texts, ret \in NativeAlloc : InputBoxNew(title, prompt, ret)
    \/ InputBoxGetRaw
    \/ InputBoxShow
    \/ InputBoxFree
    \/ DropInputBox
    \/ \E value \in ReplyCodes : ReplyFromCall(value)

SpecObject == Init /\ [][NextObject]_vars

(***************************************************************************)
(* The notification, its actions and the caller's slots: the actions fire  *)
(* once the notification was sent, and a slot may go out of scope first.   *)
(***************************************************************************)
NextNotify ==
    \/ \E status \in NvdInitReturns : init(status)
    \/ \E title, msg \in Texts, ret \in NativeAlloc : NotificationNew(title, msg, ret)
    \/ \E name \in Texts, val \in ActionValues, ptr \in SlotNames :
          NotificationAddAction(name, val, ptr)
    \/ NotificationSend
    \/ \E i \in 1..MaxActions : ActionFires(i)
    \/ \E ptr \in SlotNames : SlotScopeExit(ptr)
    \/ DropNotification

SpecNotify == Init /\ [][NextNotify]_vars

(***************************************************************************)
(* Two threads: either may call init, make a message box, use and drop it. *)
(***************************************************************************)
NextThreads ==
    \/ \E t \in Threads : Switch(t)
    \/ \E status \in NvdInitReturns : init(status)
    \/ \E title, msg \in Texts, ret \in NativeAlloc : DialogBoxNew(title, msg, ret)
    \/ \E label \in Texts : DialogBoxSetAcceptLabel(label)
    \/ DialogBoxShow
    \/ DropDialogBox

SpecThreads == Init /\ [][NextThreads]_vars

(***************************************************************************)
(* The input box and the strings it hands out: display, get_input, the     *)
(* drop of the returned strings and of the box.                            *)
(***************************************************************************)
NextInput ==
    \/ \E status \in NvdInitReturns : init(status)
    \/ \E title, prompt \in Texts, ret \in NativeAlloc : InputBoxNew(title, prompt, ret)
    \/ \E str \in NativeInputString, bytes \in NativeTexts : InputBoxDisplay(str, bytes)
    \/ \E ret \in PlainAlloc, bytes \in NativeTexts : InputBoxGetInput(ret, bytes)
    \/ \E i \in DOMAIN StringVars : DropDynamicString(i)
    \/ InputBoxFree
    \/ DropInputBox

SpecInput == Init /\ [][NextInput]_vars

(***************************************************************************)
(* Error::from alone, applied to the integers around the native codes and  *)
(* to the ends of the i32 range.                                           *)
(***************************************************************************)
I32Min == -2147483647 - 1
I32Max == 2147483647

ErrorCodes ==
    (-CodeMargin .. (CodeOf("AlreadyInitialized") + CodeMargin)) \cup {I32Min, I32Max}

ErrorFromCall(value) ==
    /\ ~panicked
    /\ last' = Call("Error::from", "Value", ErrorFrom(value), FALSE, value, <<>>, <<>>)
    /\ UNCHANGED << native, init_ok, panicked, heap, w, img, dyn, threads, slots, scan >>

NextError == \E value \in ErrorCodes : ErrorFromCall(value)

SpecError == Init /\ [][NextError]_vars

(***************************************************************************)
(* DynamicString alone: values built from every host text within the       *)
(* bounds, re-wrapped, copied, read and dropped.                           *)
(***************************************************************************)
StringData == {[some |-> FALSE, s |-> <<>>]} \cup {[some |-> TRUE, s |-> s] : s \in HostTexts}

NextString ==
    \/ \E data \in StringData, ret \in PlainAlloc : DynamicStringNew(data, ret)
    \/ \E s \in HostTexts, ret \in PlainAlloc : DynamicStringFromStr(s, ret)
    \/ \E s \in HostTexts, ret \in PlainAlloc : DynamicStringFromString(s, ret)
    \/ \E value \in {NULL} \cup StringHandles, bytes \in NativeTexts :
          DynamicStringFromRaw(value, bytes)
    \/ \E i \in DOMAIN StringVars, ret \in PlainAlloc, bytes \in NativeTexts :
          DynamicStringDuplicate(i, ret, bytes)
    \/ \E i \in DOMAIN StringVars, ret \in PlainAlloc, bytes \in NativeTexts :
          DynamicStringClone(i, ret, bytes)
    \/ \E i \in DOMAIN StringVars : DynamicStringAsStr(i)
    \/ \E i \in DOMAIN StringVars : DynamicStringAsPtr(i)
    \/ \E i \in DOMAIN StringVars : DropDynamicString(i)

SpecString == Init /\ [][NextString]_vars

(***************************************************************************)
(* strlen: the scan of a C string in 8-byte chunks.  The buffer is the one  *)
(* CString::new made: the bytes of the string and one terminator.  A read   *)
(* at an address after the buffer is undefined behaviour: it may yield any  *)
(* byte.                                                                   *)
(***************************************************************************)
MaxTailLen == 2
MaxScan == 24
ChunkBytes == 8
LowBits == 128

\* "Hello, world!", the string of the doc example.
HelloWorld == <<72, 101, 108, 108, 111, 44, 32, 119, 111, 114, 108, 100, 33>>

\* Bytes of the strings scanned: 'A' and the UTF-8 bytes C3 80 of U+00C0.
ScanBytes == {65, 128, 195}

Pad(n) == [i \in 1..n |-> 65]

Tails == UNION {[1..n -> ScanBytes] : n \in 0..MaxTailLen}

\* Strings of every length from 0 to past one chunk, and the doc example.
ScanInputs == {Pad(n) \o t : n \in 0..ChunkBytes, t \in Tails} \cup {HelloWorld}

\* What the memory after the buffer may hold.
Beyond == {NUL, 65}

\* The number of bytes before the first NUL of buf.
BytesBeforeNul(buf) == Len(NativeRead(buf))

\* *(s.add(len) as *const u64): the 8 bytes at offset len.
ChunkAt(buf, len) ==
    {[i \in 1..ChunkBytes |-> IF len + i <= Len(buf) THEN buf[len + i] ELSE g[i]] :
        g \in [1..ChunkBytes -> Beyond]}

\* word & 0x7F7F7F7F7F7F7F7F, byte by byte.
Masked(word) == [i \in 1..ChunkBytes |-> word[i] % LowBits]

\* *s.add(len): the byte at offset len.
ByteAt(buf, len) == IF len + 1 <= Len(buf) THEN {buf[len + 1]} ELSE Beyond

StrlenCall(s) ==
    /\ scan.pc \in {"idle", "done"}
    /\ scan' = [s |-> Append(s, NUL), len |-> 0, pc |-> "chunks", past |-> FALSE,
                ret |-> 0]
    /\ UNCHANGED << native, init_ok, panicked, heap, w, img, last, dyn, threads, slots >>

\* One test of the first loop: the loop goes on while the masked word is not 0.
StrlenChunk(word) ==
    /\ scan.pc = "chunks"
    /\ word \in ChunkAt(scan.s, scan.len)
    /\ IF \E i \in 1..ChunkBytes : Masked(word)[i] # 0
       THEN /\ scan.len + ChunkBytes <= MaxScan
            /\ scan' = [scan EXCEPT !.len = @ + ChunkBytes,
                                    !.past = @ \/ scan.len + ChunkBytes > Len(scan.s)]
       ELSE scan' = [scan EXCEPT !.pc = "bytes",
                                 !.past = @ \/ scan.len + ChunkBytes > Len(scan.s)]
    /\ UNCHANGED << native, init_ok, panicked, heap, w, img, last, dyn, threads, slots >>

\* One test of the second loop: the loop goes on while the byte is not 0, and
\* len is returned when it is.
StrlenByte(b) ==
    /\ scan.pc = "bytes"
    /\ b \in ByteAt(scan.s, scan.len)
    /\ IF b # 0
       THEN /\ scan.len + 1 <= MaxScan
            /\ scan' = [scan EXCEPT !.len = @ + 1,
                                    !.past = @ \/ scan.len + 1 > Len(scan.s)]
       ELSE scan' = [scan EXCEPT !.pc = "done", !.ret = scan.len,
                                 !.past = @ \/ scan.len + 1 > Len(scan.s)]
    /\ UNCHANGED << native, init_ok, panicked, heap, w, img, last, dyn, threads, slots >>

NextStrlen ==
    \/ \E s \in ScanInputs : StrlenCall(s)
    \/ \E word \in ChunkAt(scan.s, scan.len) : StrlenChunk(word)
    \/ \E b \in ByteAt(scan.s, scan.len) : StrlenByte(b)

SpecStrlen == Init /\ [][NextStrlen]_vars

(***************************************************************************)
(* Properties                                                              *)
(***************************************************************************)
NulFree(ss) == \A i \in 1..Len(ss) : ~HasNul(ss[i])

\* C1: for a wrapper that releases on drop, over any sequence of public
\* operations (a user call to Object::free included) followed by scope exit,
\* the native release function is invoked at most once per native handle.
C1_ReleasedAtMostOnce == \A h \in Handles : frees[h] <= 1

\* C2: every native handle a dialog constructor allocated has had its release
\* function invoked by the time the wrapper has gone out of scope.
C2_ReleasedAtScopeExit ==
    (w.scope = "dropped" /\ w.raw # NULL) => frees[w.raw] >= 1

\* C3: once a handle's release function has been invoked, no later operation
\* of the wrapper reaches the native layer with that handle.
C3_NoOperateAfterRelease == uaf = {}

ConstructorOps ==
    {"DialogBox::new", "QuestionDialog::new", "FileDialog::new", "InputBox::new",
     "Notification::new", "AboutDialog::build"}

OperationOps ==
    {"DialogBox::show", "DialogBox::set_accept_label", "QuestionDialog::get_reply",
     "QuestionDialog::show", "FileDialog::retrieve_filename", "InputBox::display",
     "Notification::send", "Notification::add_action", "AboutDialog::show"}

\* C4: while no init call has succeeded, every dialog constructor and dialog
\* operation (called with NUL-free text) returns Err(NotYetInitialized).
C4_NotInitializedError ==
    (~init_ok /\ last.op \in ConstructorOps \cup OperationOps /\ NulFree(last.args))
        => (last.out = "Err" /\ last.val = "NotYetInitialized")

\* C5: every init call made after a successful one returns
\* Err(Error::AlreadyInitialized), so only the first success returns Ok(()).
C5_SecondInitAlreadyInitialized ==
    [][(init_ok /\ \E status \in NvdInitReturns : init(status))
          => (last'.out = "Err" /\ last'.val = "AlreadyInitialized" /\ init_ok')]_vars

C5_Witness ==
    init_ok /\ last.op = "init" /\ last.out = "Err" /\ last.val = "AlreadyInitialized"

\* The native error codes and the variant each stands for (NvdError).
C6_Variant ==
    [c \in 255..264 |->
        CASE c = 255 -> "NoDisplay"
          [] c = 256 -> "BackendFailed"
          [] c = 257 -> "ParametersError"
          [] c = 258 -> "NotYetInitialized"
          [] c = 259 -> "InvalidBackend"
          [] c = 260 -> "InaccessibleFile"
          [] c = 261 -> "EmptyString"
          [] c = 262 -> "OutOfMemory"
          [] c = 263 -> "InternalError"
          [] c = 264 -> "AlreadyInitialized"]

\* C6 as stated: init returns Ok(()) exactly when the native status is 0, and
\* for every non-zero status Err carrying the error variant of that status.
C6_EveryStatusTyped ==
    last.op = "init" =>
        /\ (last.out = "Ok") <=> (last.nret = 0)
        /\ last.nret # 0 =>
              /\ last.out = "Err"
              /\ last.nret \in DOMAIN C6_Variant
              /\ last.val = C6_Variant[last.nret]

\* C6 amended: init returns Ok(()) exactly when the native status is 0; for a
\* non-zero status that is one of the ten native error codes it returns Err
\* of the variant of that code; for any other non-zero status, Err(NoError).
C6_InitStatusMapping ==
    last.op = "init" =>
        /\ (last.out = "Ok") <=> (last.nret = 0)
        /\ last.nret # 0 =>
              /\ last.out = "Err"
              /\ last.val = IF last.nret \in DOMAIN C6_Variant
                            THEN C6_Variant[last.nret] ELSE "NoError"

C6_Witness ==
    last.op = "init" /\ last.out = "Err" /\ last.nret = 262 /\ last.val = "OutOfMemory"

\* C7: when the native constructor returns a null handle the wrapper's
\* constructor returns a typed error, and no wrapper holding a null raw handle
\* is produced.
C7_NullBecomesError ==
    /\ (last.op \in ConstructorOps /\ last.ncall /\ last.nret = NULL) => last.out = "Err"
    /\ (w.scope = "live" /\ (w.kind # "AboutDialog" \/ w.built)) => w.raw # NULL

\* The calls that convert host text for the native layer, and the text they convert.
ConvertingOps ==
    {"DialogBox::new", "DialogBox::set_accept_label", "QuestionDialog::new",
     "FileDialog::new", "InputBox::new", "Notification::new",
     "Notification::add_action", "AboutDialog::build", "set_app_name"}

StoringOps == {"AboutDialog::name", "AboutDialog::description", "AboutDialog::version"}

ConvertedTexts(l) == IF l.op = "FileDialog::new" THEN <<l.args[1]>> ELSE l.args

RECURSIVE C9_WellFormed(_)
C9_WellFormed(b) ==
    \/ b = <<>>
    \/ b[1] = 97 /\ C9_WellFormed(Tail(b))
    \/ Len(b) >= 2 /\ b[1] = 195 /\ b[2] = 169 /\ C9_WellFormed(Tail(Tail(b)))

\* C9 as stated: retrieve_filename returns None exactly when the native layer
\* leaves the output pointer null, and Some(path) equal to the native string
\* otherwise.
C9_NoneIffNullElseSome ==
    last.op = "FileDialog::retrieve_filename" =>
        /\ (last.out = "None") <=> (last.nargs = <<>>)
        /\ last.nargs # <<>> => (last.out = "Some" /\ last.args = last.nargs)

\* C9 amended: retrieve_filename returns None exactly when the native layer
\* leaves the output pointer null, without panicking; when the pointer is not
\* null it returns Some(path) equal to the native string if that string is
\* valid UTF-8, and panics ("Invalid UTF-8 data") if it is not.
C9_RetrieveFilename ==
    last.op = "FileDialog::retrieve_filename" =>
        /\ (last.out = "None") <=> (last.nargs = <<>>)
        /\ last.out = "None" => ~panicked
        /\ last.nargs # <<>> =>
              IF C9_WellFormed(last.nargs[1])
              THEN last.out = "Some" /\ last.args = last.nargs /\ ~panicked
              ELSE last.out = "Panic" /\ panicked

C9_Witness ==
    /\ last.op = "FileDialog::retrieve_filename"
    /\ last.out = "None"
    /\ last.nargs = <<>>
    /\ w.raw # NULL

\* The filter C10 describes: each extension of the list, in order, followed by
\* ';' and a NUL byte.
RECURSIVE C10_Filter(_)
C10_Filter(exts) ==
    IF exts = <<>> THEN <<>>
    ELSE Head(exts) \o <<59, 0>> \o C10_Filter(Tail(exts))

HostBuildOps ==
    {"DynamicString::new", "DynamicString::from(&str)", "DynamicString::from(String)"}

HostVias == {"new", "from_str", "from_string"}

\* C11: for every host text s without an embedded NUL, a DynamicString built
\* from s (new, From<&str>, From<String>) reads back as s through as_str and
\* Display, the native string made for it holds s, and wrapping that native
\* string again with From<*mut NvdDynamicString> yields s as well.
C11_RoundTrip ==
    /\ (last.op \in HostBuildOps /\ last.out = "Value" /\ last.args # <<>>)
          => /\ last.val = last.args[1]
             /\ ~HasNul(last.args[1])
             /\ last.nret # NULL => ntext[last.nret].bytes = last.args[1]
    /\ (last.op = "DynamicString::as_str" /\ last.args[1] \in HostVias /\ last.nret # NULL)
          => last.val = ntext[last.nret].bytes
    /\ \A i \in 1..Len(ds) :
          (ds[i].via \in HostVias /\ ds[i].native # NULL)
             => /\ ds[i].this = ntext[ds[i].native].bytes
                /\ (/\ last.op = "DynamicString::from(*mut)"
                    /\ last.nret = ds[i].native
                    /\ frees[ds[i].native] = 0)
                      => last.val = ds[i].this

C11_Witness ==
    /\ last.op = "DynamicString::from(*mut)"
    /\ last.out = "Value"
    /\ last.val = <<195, 169>>
    /\ Len(ds) = 2
    /\ ds[1].via \in HostVias
    /\ ds[1].native = last.nret
    /\ ds[1].this = <<195, 169>>

\* The eleven native codes in the order of C12, each with its variant.
C12_Table ==
    << <<0, "NoError">>, <<255, "NoDisplay">>, <<256, "BackendFailed">>,
       <<257, "ParametersError">>, <<258, "NotYetInitialized">>,
       <<259, "InvalidBackend">>, <<260, "InaccessibleFile">>,
       <<261, "EmptyString">>, <<262, "OutOfMemory">>, <<263, "InternalError">>,
       <<264, "AlreadyInitialized">> >>

\* C12: Error::from(code) returns, for each of the eleven native codes (0 and
\* 0xff through 0xff+9), the variant whose discriminant is that code, and the
\* fallback variant NoError for every other integer.
C12_ErrorFromTable ==
    last.op = "Error::from" =>
        /\ \A k \in 1..Len(C12_Table) :
              last.nret = C12_Table[k][1] => last.val = C12_Table[k][2]
        /\ (\A k \in 1..Len(C12_Table) : last.nret # C12_Table[k][1])
              => last.val = "NoError"

C12_Witness ==
    last.op = "Error::from" /\ last.nret = 264 /\ last.val = "AlreadyInitialized"

\* C13: each wrapper moves only along Uninitialized -> Created -> Released:
\* no show call reaches the native layer before the wrapper's native handle
\* has been created (AboutDialog: show only after build), a wrapper creates
\* its native handle at most once (AboutDialog: build only once), and no
\* operation uses a handle again after its release.
C13_Lifecycle ==
    [][/\ AboutDialogShow => w.built
       /\ (\E ret \in NativeAlloc : AboutDialogBuild(ret)) => ~w.built
       /\ uaf' \subseteq uaf]_vars

\* Every variable that held a wrapper has gone out of scope.
AllOutOfScope ==
    /\ w.scope # "live"
    /\ img.scope # "live"
    /\ \A i \in 1..Len(ds) : ds[i].scope = "dropped"

\* C14: every native string, allocated from host text or received from a
\* native call (the input box's string wrapped by display), is freed exactly
\* once over any sequence of display, get_input, clone and drop: never more
\* than once, and once when every wrapper has gone out of scope.
C14_StringFreedExactlyOnce ==
    \A h \in StringHandles :
        /\ frees[h] <= 1
        /\ AllOutOfScope => frees[h] = 1

\* The live wrappers that hold the native pointer h: the box's user_input and
\* the DynamicString variables of the program.
C15_Holders(h) ==
    (IF w.scope = "live" /\ w.user_input = h THEN {"user_input"} ELSE {})
        \cup {i \in 1..Len(ds) : ds[i].scope = "live" /\ ds[i].native = h}

\* C15 (for native strings): in every reachable state a native string pointer
\* that a live wrapper holds is live and is held by exactly that one wrapper,
\* which will release it; no two live wrappers hold the same pointer, also
\* after InputBox::display has been called more than once.
C15_OneOwnerOfLivePointer ==
    \A h \in StringHandles :
        C15_Holders(h) # {} => (frees[h] = 0 /\ Cardinality(C15_Holders(h)) = 1)

\* C16: in every execution with more than one thread, each dialog creation and
\* each dialog operation is made by the thread that performed library
\* initialization.
C16_CallsOnInitThread ==
    [][(/\ init_thread # "none"
        /\ last' # last
        /\ last'.op \in ConstructorOps \cup OperationOps)
          => running = init_thread]_vars

\* The values of the actions that target slot p and have fired.
C17_FiredInto(p) ==
    {w.actions[i].val : i \in {j \in 1..Len(w.actions) :
                                  w.actions[j].ptr = p /\ w.actions[j].fired}}

\* C17: after add_action(name, val, slot) the caller's slot keeps its previous
\* value until the action fires, holds val once it has fired (the value of
\* one of the fired actions bound to it), is not changed by the firing of
\* any other action, and the write only ever targets a slot the caller still
\* owns.
C17_SlotWrittenOnFire ==
    \A p \in SlotNames :
        /\ ~slots[p].stray
        /\ (w.kind = "Notification" /\ slots[p].scope = "live") =>
              IF C17_FiredInto(p) = {} THEN slots[p].value = SlotInitial
              ELSE slots[p].value \in C17_FiredInto(p)

\* C18: send is idempotent: any number of send calls on one Notification
\* presents the notification to the native layer once.
C18_SentOnce == w.kind = "Notification" => w.sends <= 1

\* C19: for every type implementing Object (QuestionDialog, InputBox), get_raw
\* returns the native handle created for the wrapper and never null, for
\* every wrapper value a constructor can produce.
C19_GetRawNonNull ==
    last.op \in {"QuestionDialog::get_raw", "InputBox::get_raw"}
        => (last.out = "Value" /\ last.val = w.raw /\ last.val # NULL)

C21_GetInput ==
    /\ (last.op = "InputBox::display" /\ w.raw # NULL) => last.out = "Unit"
    /\ last.op = "InputBox::get_input" =>
          IF w.user_input = NULL \/ ntext[w.user_input].bytes = <<>>
          THEN last.out = "None"
          ELSE last.out = "Value" /\ last.val = ntext[w.user_input].bytes

\* A step in which ds[i] is copied by duplicate or clone and a value comes back.
C22_Copied(i) ==
    /\ \E ret \in PlainAlloc, bytes \in NativeTexts :
          DynamicStringDuplicate(i, ret, bytes) \/ DynamicStringClone(i, ret, bytes)
    /\ Len(ds') = Len(ds) + 1

\* A drop of ds[i] leaves every other value as it was, and the native string
\* of every value with another pointer as often released as before.
C22_DropLeavesOthers ==
    \A i \in DOMAIN StringVars :
        DropDynamicString(i) =>
            \A j \in (1..Len(ds)) \ {i} :
                /\ ds'[j] = ds[j]
                /\ (ds[j].native # NULL /\ ds[j].native # ds[i].native)
                      => frees'[ds[j].native] = frees[ds[j].native]

C23_NewReportsCause ==
    (last.op = "Notification::new" /\ last.ncall) =>
        /\ last.out = "Ok" <=> last.nret # NULL
        /\ (last.out = "Err" /\ last.val = "OutOfMemory")
              <=> (last.nret = NULL /\ nvd_error = CodeOf("OutOfMemory"))

C25_StrlenIsLength ==
    scan.pc = "done" => scan.ret = BytesBeforeNul(scan.s)

\* C26: the chunk loop stops at the first 8-byte chunk that contains a NUL
\* byte, so the running length never advances past the terminator and strlen
\* never reads a byte located after the end of the buffer that holds the
\* string and its terminator.
C26_ScanStaysInBuffer ==
    scan.pc # "idle" =>
        /\ scan.len <= BytesBeforeNul(scan.s)
        /\ ~scan.past

\* C27: every DynamicString value that exists, however it was built (new,
\* From<&str>, From<String>, From<*mut NvdDynamicString>, duplicate, clone),
\* holds a non-null native pointer, so as_ptr and clone never panic on a null
\* native string and drop never passes one to the native layer.
C27_NativeNonNull ==
    /\ \A i \in 1..Len(ds) : ds[i].native # NULL
    /\ last.op \in {"DynamicString::as_ptr", "DynamicString::clone"} => last.out # "Panic"

====
